---- MODULE Spec2Model ----
(***************************************************************************)
(* Model of rclights.c: a remote-control light controller.  One PWM input  *)
(* is measured, debounced, quantised into a master light configuration     *)
(* and applied to six LED channels, two of which may blink.                *)
(***************************************************************************)
EXTENDS Integers, Sequences, FiniteSets, TLC

(***************************************************************************)
(* Bounds of the model (not program constants).                            *)
(***************************************************************************)
\* width in bits of the model's free-running clock (time_us_32 has 32)
ClockBits == 3
\* blink interval in clock units (BLINK_INTERVAL_US scaled to the model clock)
BlinkTicks == 3
\* largest advance of the clock during one blocking measurement
MaxTick == 2
\* largest advance of the clock between two consecutive statements
MaxSkew == 1

ClockMod == 2 ^ ClockBits

(***************************************************************************)
(* Program constants.                                                      *)
(***************************************************************************)
INPUT_PWM_FREQ == 62
INPUT_PWM_COUNTER_MAX == 1000000 \div INPUT_PWM_FREQ
INPUT_PWM_AVG_SAMPLES == 5
INPUT_PWM_SMOOTH_SAMPLES == 4

OUTPUT_PWM_ON_LEVEL == 20
OUTPUT_PWM_OFF_LEVEL == 0
OUTPUT_PWM_HI_LEVEL == 100

INPUT_PWM_US_RANGE_MIN == 1019
INPUT_PWM_US_RANGE_MAX == 1971
INPUT_PWM_US_RANGE_SIZE == INPUT_PWM_US_RANGE_MAX - INPUT_PWM_US_RANGE_MIN
MASTER_LIGHT_CONFIGURATION_COUNT == 48

Leds == {"FRONT_WHITE", "FRONT_BLUE", "LEFT_BLINKERS", "RIGHT_BLINKERS",
         "STOP", "REVERSE"}
LedState == {"OFF", "ON", "HI"}

(***************************************************************************)
(* Single-precision arithmetic of the decoder.  A positive float is a      *)
(* 24-bit significand M (2^23 <= M < 2^24) and an exponent e, of value     *)
(* M * 2^(e-23); every operation rounds to nearest, ties to even.          *)
(***************************************************************************)
RECURSIVE ILog2(_)
\* floor(log2(n)) for n >= 1
ILog2(n) == IF n < 2 THEN 0 ELSE 1 + ILog2(n \div 2)

\* n/d rounded to the nearest integer, ties to even (n >= 0, d > 0)
RoundHalfEven(n, d) ==
  LET q == n \div d
      r == n % d
  IN  IF 2 * r < d THEN q
      ELSE IF 2 * r > d THEN q + 1
      ELSE IF q % 2 = 0 THEN q ELSE q + 1

\* INPUT_PWM_US_BUCKET_SIZE = RANGE_SIZE / (COUNT - 1) as a float: its
\* significand; the value lies in [16, 32), so the exponent is 4 and the
\* value is BUCKET_SIG * 2^-19.
BUCKET_EXP == ILog2(INPUT_PWM_US_RANGE_SIZE \div (MASTER_LIGHT_CONFIGURATION_COUNT - 1))
BUCKET_SIG ==
  RoundHalfEven(INPUT_PWM_US_RANGE_SIZE * 2 ^ (23 - BUCKET_EXP),
                MASTER_LIGHT_CONFIGURATION_COUNT - 1)

\* INPUT_PWM_US_BUCKET_SIZE / 2 is exact: BUCKET_SIG * 2^-20, split into
\* its integer part and its fraction in units of 2^-20.
HalfUnit == 2 ^ (24 - BUCKET_EXP)
HALF_BUCKET_INT == BUCKET_SIG \div HalfUnit
HALF_BUCKET_FRAC == BUCKET_SIG % HalfUnit

\* The float nearest to ip + fr / HalfUnit (ip >= 0, 0 <= fr < HalfUnit,
\* not both zero), as [m |-> significand, e |-> exponent].
F32OfSum(ip, fr) ==
  LET e == IF ip >= 1 THEN ILog2(ip) ELSE ILog2(fr) - (24 - BUCKET_EXP)
      keep == 23 - e                    \* fraction bits the float keeps
      have == 24 - BUCKET_EXP           \* fraction bits of fr
      m == IF keep >= have
             THEN (ip * HalfUnit + fr) * 2 ^ (keep - have)
             ELSE ip * 2 ^ keep + RoundHalfEven(fr, 2 ^ (have - keep))
  IN  IF m = 2 ^ 24 THEN [m |-> 2 ^ 23, e |-> e + 1] ELSE [m |-> m, e |-> e]

RECURSIVE DivShift(_, _, _)
\* quotient and remainder of (m * 2^k) / d, without forming m * 2^k
DivShift(m, k, d) ==
  IF k = 0 THEN [q |-> m \div d, r |-> m % d]
  ELSE LET p == DivShift(m, k - 1, d)
       IN  [q |-> 2 * p.q + ((2 * p.r) \div d), r |-> (2 * p.r) % d]

\* Variant: the quotient is rounded to the nearest integer instead of being
\* truncated.
F32DivNearest(f) ==
  LET k == f.e - BUCKET_EXP
      den == IF k >= 0 THEN BUCKET_SIG ELSE BUCKET_SIG * 2 ^ (0 - k)
      qr == IF k >= 0 THEN DivShift(f.m, k, BUCKET_SIG)
                      ELSE [q |-> f.m \div den, r |-> f.m % den]
  IN  IF 2 * qr.r >= den THEN qr.q + 1 ELSE qr.q

\* Truncation toward zero of the float quotient f / INPUT_PWM_US_BUCKET_SIZE
\* (f positive).  The exact quotient is f.m * 2^(f.e - BUCKET_EXP) /
\* BUCKET_SIG; the float division rounds it up to the next integer when it
\* lies within half a unit in the last place below that integer.
F32DivTrunc(f) ==
  LET k == f.e - BUCKET_EXP
      den == IF k >= 0 THEN BUCKET_SIG ELSE BUCKET_SIG * 2 ^ (0 - k)
      qr == IF k >= 0 THEN DivShift(f.m, k, BUCKET_SIG)
                      ELSE [q |-> f.m \div den, r |-> f.m % den]
      up == qr.q + 1
      \* 2^ex < up <= 2^(ex+1)
      ex == IF up = 1 THEN 0 - 1 ELSE ILog2(up - 1)
      roundsUp == (den - qr.r) <= den \div (2 ^ (24 - ex))
  IN  IF roundsUp THEN up ELSE qr.q

\* The value of (hi_us - RANGE_MIN + BUCKET_SIZE / 2) / BUCKET_SIZE truncated
\* toward zero, for an integral hi_us (the measurement is a counter value).
QuotientTrunc(hi_us) ==
  LET x == hi_us - INPUT_PWM_US_RANGE_MIN
  IN  IF x + HALF_BUCKET_INT >= 0
        THEN F32DivTrunc(F32OfSum(x + HALF_BUCKET_INT, HALF_BUCKET_FRAC))
        ELSE 0 - F32DivTrunc(F32OfSum(0 - x - HALF_BUCKET_INT - 1,
                                      HalfUnit - HALF_BUCKET_FRAC))

\* What a build makes of a float-to-uint8_t conversion whose behaviour is
\* undefined: zero, the largest value, or the low eight bits.
Builds == {"zero", "max", "wrap"}

\* Variant: the converted value is clamped to the configuration ids.
FloatToUint8Clamped(b, t) ==
  IF t < 0 THEN 0
  ELSE IF t >= MASTER_LIGHT_CONFIGURATION_COUNT
         THEN MASTER_LIGHT_CONFIGURATION_COUNT - 1
  ELSE t

\* Conversion of a float whose integral part is t to uint8_t on build b.  It
\* is defined when 0 <= t <= 255; otherwise the behaviour is undefined and
\* the result is what the build makes of it.
FloatToUint8On(b, t) ==
  IF 0 <= t /\ t <= 255 THEN t
  ELSE CASE b = "zero" -> 0
         [] b = "max" -> 255
         [] b = "wrap" -> t % 256

\* the results of the conversion over all builds
FloatToUint8(t) == {FloatToUint8On(b, t) : b \in Builds}

\* The ids input_pwm_hi_us_to_config_id(hi_us) may return.
input_pwm_hi_us_to_config_id(hi_us) == FloatToUint8(QuotientTrunc(hi_us))

\* Variant: the quotient is shifted by one bit only.
PackConfigShift1(config_id) == ((config_id % 3) + ((config_id \div 3) * 2)) % 256

\* Variant: the low field is taken modulo 4, as a 2-bit field would be.
PackConfigMod4(config_id) == ((config_id % 4) + ((config_id \div 4) * 4)) % 256

\* Variant: the quotient is shifted by three bits.
PackConfigShift3(config_id) == ((config_id % 3) + ((config_id \div 3) * 8)) % 256

\* uint8_t config = (config_id % 3) + ((config_id / 3) << 2): the sum is
\* formed in int and stored in eight bits.
PackConfig(config_id) == ((config_id % 3) + ((config_id \div 3) * 4)) % 256

(***************************************************************************)
(* State of the program.                                                   *)
(***************************************************************************)
VARIABLES
  pc,                   \* position of the caller (main or a test harness)
  build,                \* the build that runs: its out-of-range conversions
  avg_curr_sample,      \* average_input_pwm_hi_us: static curr_sample
  avg_samples,          \* average_input_pwm_hi_us: static samples[]
  running_avg_hi_us,    \* average_input_pwm_hi_us: static avg_hi_us
  avg_hist,             \* history: the samples of the last calls, newest last
  avg_evicted,          \* history: the sample the last call subtracted
  clock,                \* the free-running microsecond counter, modulo ClockMod
  smooth_hi_us,         \* smooth_input_pwm_hi_us: static smooth_hi_us
  curr_sample,          \* smooth_input_pwm_hi_us: static curr_sample
  samples,              \* smooth_input_pwm_hi_us: static samples[]
  state,                \* Led.state of every channel
  level,                \* level last written to the peripheral, per channel
  writes,               \* peripheral writes per channel during the last call
  next_us,              \* blink_led: static next_us
  blink_on,             \* blink_led: static blink_on
  input_pwm_hi_us,      \* main: input_pwm_hi_us (argument of the decoder)
  config_id,            \* input_pwm_hi_us_to_master_lights_config: config_id
  master_lights_config, \* main: master_lights_config (argument of apply)
  raw_hist,             \* history: the raw samples of the last calls, newest last
  prev_smooth,          \* history: value returned by the previous filter call
  blink_log,            \* history: blink_led calls of the last apply
  since_flip,           \* history: time since the last phase flip, at most BlinkTicks
  flip_log,             \* history: for each flip of the last apply, the time
                        \* since the flip before it
  turn_log              \* history: the last direct turn_led_* call

vars == <<pc, build, avg_curr_sample, avg_samples, running_avg_hi_us,
          avg_hist, avg_evicted, clock, smooth_hi_us, curr_sample, samples, state, level, writes,
          next_us, blink_on, input_pwm_hi_us, config_id, master_lights_config,
          raw_hist, prev_smooth, blink_log, since_flip, flip_log, turn_log>>

avgVars == <<avg_curr_sample, avg_samples, running_avg_hi_us, avg_hist,
             avg_evicted>>
filterVars == <<smooth_hi_us, curr_sample, samples, raw_hist, prev_smooth>>
ledVars == <<state, level, writes>>
blinkVars == <<next_us, blink_on, blink_log, flip_log>>
decodeVars == <<config_id, master_lights_config>>

NoWrites == [l \in Leds |-> 0]

\* elapsed time is followed up to BlinkTicks
Saturate(d) == IF d > BlinkTicks THEN BlinkTicks ELSE d
NoTurn == [led |-> "none", target |-> "OFF", pre |-> "OFF", wrote |-> 0,
           same |-> FALSE, prev_wrote |-> 0]

(***************************************************************************)
(* Moving average: average_input_pwm_hi_us.  The measurements are          *)
(* multiples of INPUT_PWM_AVG_SAMPLES, so that the quotients, their        *)
(* differences and the running sum are integers, which the floats of the   *)
(* code hold exactly.                                                      *)
(***************************************************************************)
\* measure_input_pwm_hi_us() / INPUT_PWM_AVG_SAMPLES, for a multiple hi_us
pre_divided(hi_us) == hi_us \div INPUT_PWM_AVG_SAMPLES

\* Variant: the index runs over INPUT_PWM_AVG_SAMPLES slots only.
oldest_sample_short(cs) == (cs + 1) % INPUT_PWM_AVG_SAMPLES

\* uint8_t oldest_sample = (curr_sample + 1) % (INPUT_PWM_AVG_SAMPLES + 1)
oldest_sample(cs) == (cs + 1) % (INPUT_PWM_AVG_SAMPLES + 1)

\* One call of average_input_pwm_hi_us on its statics a, the measurement
\* returning hi_us.
average_input_pwm_hi_us(a, hi_us) ==
  LET oldest == oldest_sample(a.curr_sample)
      smp == [a.samples EXCEPT ![a.curr_sample] = pre_divided(hi_us)]
  IN  [samples |-> smp,
       avg_hi_us |-> a.avg_hi_us + smp[a.curr_sample] - smp[oldest],
       curr_sample |-> oldest,
       evicted |-> smp[oldest]]

\* the newest INPUT_PWM_AVG_SAMPLES + 1 entries of h followed by x
PushAvgHist(h, x) ==
  LET a == Append(h, x)
  IN  IF Len(a) > INPUT_PWM_AVG_SAMPLES + 1 THEN Tail(a) ELSE a

\* The caller runs the average once; the measurement blocks for one input
\* period, during which the clock advances by d, and returns hi_us.
DoAverage(hi_us, d) ==
  LET a == average_input_pwm_hi_us(
             [samples |-> avg_samples, avg_hi_us |-> running_avg_hi_us,
              curr_sample |-> avg_curr_sample], hi_us)
  IN  /\ avg_samples' = a.samples
      /\ running_avg_hi_us' = a.avg_hi_us
      /\ avg_curr_sample' = a.curr_sample
      /\ avg_evicted' = a.evicted
      /\ avg_hist' = PushAvgHist(avg_hist, pre_divided(hi_us))
      /\ clock' = (clock + d) % ClockMod
      /\ since_flip' = Saturate(since_flip + d)

(***************************************************************************)
(* Debounce filter: smooth_input_pwm_hi_us.                                *)
(***************************************************************************)
\* Variant: the loop stops one sample early.
all_equal_short(smp, avg_hi_us) ==
  \A i \in 0 .. INPUT_PWM_SMOOTH_SAMPLES - 2 : smp[i] = avg_hi_us

\* the loop over samples[0 .. INPUT_PWM_SMOOTH_SAMPLES-1]
all_equal(smp, avg_hi_us) ==
  \A i \in 0 .. INPUT_PWM_SMOOTH_SAMPLES - 1 : smp[i] = avg_hi_us

\* Variant: the write index advances by two.
next_curr_sample_by2(cs) == (cs + 2) % INPUT_PWM_SMOOTH_SAMPLES

\* curr_sample = (curr_sample + 1) % INPUT_PWM_SMOOTH_SAMPLES
next_curr_sample(cs) == (cs + 1) % INPUT_PWM_SMOOTH_SAMPLES

\* One call of smooth_input_pwm_hi_us on filter state f, the measurement
\* returning avg_hi_us.
smooth_input_pwm_hi_us(f, avg_hi_us) ==
  LET smp == [f.samples EXCEPT ![f.curr_sample] = avg_hi_us]
  IN  [samples |-> smp,
       smooth_hi_us |-> IF avg_hi_us # f.smooth_hi_us /\ all_equal(smp, avg_hi_us)
                          THEN avg_hi_us ELSE f.smooth_hi_us,
       curr_sample |-> next_curr_sample(f.curr_sample)]

\* the newest INPUT_PWM_SMOOTH_SAMPLES entries of h followed by raw
PushHist(h, raw) ==
  LET a == Append(h, raw)
  IN  IF Len(a) > INPUT_PWM_SMOOTH_SAMPLES THEN Tail(a) ELSE a

\* The caller runs the filter once; the measurement blocks for one input
\* period, during which the clock advances by d, and returns raw.
DoSmooth(raw, d) ==
  LET f == smooth_input_pwm_hi_us(
             [samples |-> samples, smooth_hi_us |-> smooth_hi_us,
              curr_sample |-> curr_sample], raw)
  IN  /\ samples' = f.samples
      /\ smooth_hi_us' = f.smooth_hi_us
      /\ curr_sample' = f.curr_sample
      /\ input_pwm_hi_us' = f.smooth_hi_us
      /\ raw_hist' = PushHist(raw_hist, raw)
      /\ prev_smooth' = smooth_hi_us
      /\ clock' = (clock + d) % ClockMod
      /\ since_flip' = Saturate(since_flip + d)

(***************************************************************************)
(* Light controls.  A store s carries the channels, the blink timer, the   *)
(* current time and the log of blink_led calls.                            *)
(***************************************************************************)
pwm_set_gpio_level(s, led, lvl) ==
  [s EXCEPT !.level[led] = lvl, !.writes[led] = @ + 1]

\* Variant: no early return when the channel is already Off.
turn_led_off_unguarded(s, led) ==
  [pwm_set_gpio_level(s, led, OUTPUT_PWM_OFF_LEVEL) EXCEPT !.state[led] = "OFF"]

\* Variant: the level is written but the new state is not recorded.
turn_led_off_unrecorded(s, led) ==
  IF s.state[led] = "OFF" THEN s
  ELSE pwm_set_gpio_level(s, led, OUTPUT_PWM_OFF_LEVEL)

turn_led_off(s, led) ==
  IF s.state[led] = "OFF" THEN s
  ELSE [pwm_set_gpio_level(s, led, OUTPUT_PWM_OFF_LEVEL) EXCEPT !.state[led] = "OFF"]

\* Variant: the High level is written for On.
turn_led_on_hi_level(s, led) ==
  IF s.state[led] = "ON" THEN s
  ELSE [pwm_set_gpio_level(s, led, OUTPUT_PWM_HI_LEVEL) EXCEPT !.state[led] = "ON"]

turn_led_on(s, led) ==
  IF s.state[led] = "ON" THEN s
  ELSE [pwm_set_gpio_level(s, led, OUTPUT_PWM_ON_LEVEL) EXCEPT !.state[led] = "ON"]

\* Variant: no early return when the channel is already High.
turn_led_hi_unguarded(s, led) ==
  [pwm_set_gpio_level(s, led, OUTPUT_PWM_HI_LEVEL) EXCEPT !.state[led] = "HI"]

turn_led_hi(s, led) ==
  IF s.state[led] = "HI" THEN s
  ELSE [pwm_set_gpio_level(s, led, OUTPUT_PWM_HI_LEVEL) EXCEPT !.state[led] = "HI"]

\* the clock advances by d between two statements
Elapse(s, d) ==
  [s EXCEPT !.now = (@ + d) % ClockMod, !.since = Saturate(@ + d)]

\* Variant: the deadline itself already flips the phase.
blink_timer_at_deadline(s, curr_us) ==
  IF s.next_us <= curr_us
    THEN [s EXCEPT !.next_us = (curr_us + BlinkTicks) % ClockMod,
                   !.blink_on = ~s.blink_on]
    ELSE s

\* the timer step of blink_led: if (next_us < curr_us) { ... }
blink_timer(s, curr_us) ==
  IF s.next_us < curr_us
    THEN [s EXCEPT !.next_us = (curr_us + BlinkTicks) % ClockMod,
                   !.blink_on = ~s.blink_on]
    ELSE s

\* Variant: in the off phase the Off level is written whatever the state.
blink_led_off_unguarded(s, led) ==
  LET t == blink_timer(s, s.now)
      flipped == t.blink_on # s.blink_on
      u == [t EXCEPT !.log = Append(@, [led |-> led, on |-> t.blink_on]),
                     !.flips = IF flipped THEN Append(@, s.since) ELSE @,
                     !.since = IF flipped THEN 0 ELSE @]
  IN  IF u.blink_on
        THEN [turn_led_on(u, led) EXCEPT !.state[led] = "ON"]
        ELSE [pwm_set_gpio_level(u, led, OUTPUT_PWM_OFF_LEVEL)
                EXCEPT !.state[led] = "OFF"]

blink_led(s, led) ==
  LET t == blink_timer(s, s.now)
      flipped == t.blink_on # s.blink_on
      u == [t EXCEPT !.log = Append(@, [led |-> led, on |-> t.blink_on]),
                     !.flips = IF flipped THEN Append(@, s.since) ELSE @,
                     !.since = IF flipped THEN 0 ELSE @]
  IN  IF u.blink_on
        THEN [turn_led_on(u, led) EXCEPT !.state[led] = "ON"]
        ELSE IF u.state[led] = "ON" /\ ~u.blink_on
               THEN turn_led_off(u, led)
               ELSE u

(***************************************************************************)
(* Application of the master light configuration.                          *)
(***************************************************************************)
\* Variant: the rule drives the blue front light.
apply_front_blue_light_rules(s, day_night_config, hi_beams_config) ==
  IF hi_beams_config # 0 THEN turn_led_hi(s, "FRONT_BLUE")
  ELSE IF day_night_config # 0 THEN turn_led_on(s, "FRONT_BLUE")
  ELSE turn_led_off(s, "FRONT_BLUE")

apply_front_white_light_rules(s, day_night_config, hi_beams_config) ==
  IF hi_beams_config # 0 THEN turn_led_hi(s, "FRONT_WHITE")
  ELSE IF day_night_config # 0 THEN turn_led_on(s, "FRONT_WHITE")
  ELSE turn_led_off(s, "FRONT_WHITE")

\* Variant: the right-blinker case forgets to turn the left blinker off.
apply_blink_light_config_right_only(s, config, skew) ==
  CASE config = 0 -> turn_led_off(turn_led_off(s, "LEFT_BLINKERS"), "RIGHT_BLINKERS")
    [] config = 1 -> turn_led_off(blink_led(s, "LEFT_BLINKERS"), "RIGHT_BLINKERS")
    [] config = 2 -> blink_led(s, "RIGHT_BLINKERS")
    [] OTHER -> blink_led(Elapse(blink_led(s, "LEFT_BLINKERS"), skew), "RIGHT_BLINKERS")

\* skew: the time that passes between the two blink_led calls of the
\* hazard case
apply_blink_light_config(s, config, skew) ==
  CASE config = 0 -> turn_led_off(turn_led_off(s, "LEFT_BLINKERS"), "RIGHT_BLINKERS")
    [] config = 1 -> turn_led_off(blink_led(s, "LEFT_BLINKERS"), "RIGHT_BLINKERS")
    [] config = 2 -> blink_led(turn_led_off(s, "LEFT_BLINKERS"), "RIGHT_BLINKERS")
    [] OTHER -> blink_led(Elapse(blink_led(s, "LEFT_BLINKERS"), skew), "RIGHT_BLINKERS")

apply_reverse_light_config(s, config) ==
  IF config # 0 THEN turn_led_on(s, "REVERSE") ELSE turn_led_off(s, "REVERSE")

\* Variant: the day/night rule is tested before the brake rule.
apply_stop_light_rules_night_first(s, day_night_config, brake_light_config) ==
  IF day_night_config # 0 THEN turn_led_on(s, "STOP")
  ELSE IF brake_light_config # 0 THEN turn_led_hi(s, "STOP")
  ELSE turn_led_off(s, "STOP")

apply_stop_light_rules(s, day_night_config, brake_light_config) ==
  IF brake_light_config # 0 THEN turn_led_hi(s, "STOP")
  ELSE IF day_night_config # 0 THEN turn_led_on(s, "STOP")
  ELSE turn_led_off(s, "STOP")

\* the five fields of a configuration
brake_light_config(config) == config % 2
reverse_light_config(config) == (config \div 2) % 2
blink_light_config(config) == (config \div 4) % 4
hi_beams_config(config) == (config \div 16) % 2
day_night_config(config) == (config \div 32) % 2

apply_master_lights_config(s, config, skew) ==
  LET s1 == apply_stop_light_rules(s, day_night_config(config), brake_light_config(config))
      s2 == apply_reverse_light_config(s1, reverse_light_config(config))
      s3 == apply_blink_light_config(s2, blink_light_config(config), skew)
  IN  apply_front_white_light_rules(s3, day_night_config(config), hi_beams_config(config))

\* the store at the start of a call: no write counted, no blink_led logged
Store ==
  [state |-> state, level |-> level, writes |-> NoWrites, next_us |-> next_us,
   blink_on |-> blink_on, now |-> clock, log |-> <<>>, since |-> since_flip,
   flips |-> <<>>]

SetStore(s) ==
  /\ state' = s.state
  /\ level' = s.level
  /\ writes' = s.writes
  /\ next_us' = s.next_us
  /\ blink_on' = s.blink_on
  /\ clock' = s.now
  /\ blink_log' = s.log
  /\ since_flip' = s.since
  /\ flip_log' = s.flips

\* The time that may pass between the two clock readings of one
\* application: only the hazard case reads the clock twice.
Skews(config) ==
  IF blink_light_config(config) = 3 THEN 0 .. MaxSkew ELSE {0}

\* The caller applies config; skew time units pass between the two clock
\* readings of the hazard case.
DoApply(config, skew) ==
  /\ master_lights_config' = config
  /\ SetStore(apply_master_lights_config(Store, config, skew))

(***************************************************************************)
(* The program: main().                                                    *)
(***************************************************************************)
\* the raw pulse widths the receiver sends in the model of main
MainRaw == {INPUT_PWM_US_RANGE_MIN, INPUT_PWM_US_RANGE_MAX}

\* memory after static initialisation
InitMem ==
  /\ clock = 0
  /\ smooth_hi_us = 0
  /\ curr_sample = 0
  /\ samples = [i \in 0 .. INPUT_PWM_SMOOTH_SAMPLES - 1 |-> 0]
  /\ state = [l \in Leds |-> "OFF"]
  /\ level = [l \in Leds |-> 0]
  /\ writes = NoWrites
  /\ next_us = 0
  /\ blink_on = FALSE
  /\ config_id = 0
  /\ master_lights_config = 0
  /\ raw_hist = <<>>
  /\ prev_smooth = 0
  /\ blink_log = <<>>
  /\ since_flip = BlinkTicks
  /\ flip_log = <<>>
  /\ turn_log = NoTurn
  /\ avg_curr_sample = 0
  /\ avg_samples = [i \in 0 .. INPUT_PWM_AVG_SAMPLES |-> 0]
  /\ running_avg_hi_us = 0
  /\ avg_hist = <<>>
  /\ avg_evicted = 0

Init == InitMem /\ build \in Builds /\ input_pwm_hi_us = 0 /\ pc = "init"

\* init_leds(); turn_led_on(&FRONT_BLUE);
Startup ==
  /\ pc = "init"
  /\ SetStore(turn_led_on(Store, "FRONT_BLUE"))
  /\ pc' = "smooth"
  /\ UNCHANGED <<build, avgVars, filterVars, decodeVars, input_pwm_hi_us, turn_log>>

\* input_pwm_hi_us = smooth_input_pwm_hi_us();
LoopSmooth ==
  /\ pc = "smooth"
  /\ \E raw \in MainRaw, d \in 1 .. MaxTick : DoSmooth(raw, d)
  /\ pc' = "decode"
  /\ UNCHANGED <<build, avgVars, ledVars, blinkVars, decodeVars, turn_log>>

\* master_lights_config = input_pwm_hi_us_to_master_lights_config(input_pwm_hi_us);
DoDecode ==
  LET id == FloatToUint8On(build, QuotientTrunc(input_pwm_hi_us))
  IN  /\ config_id' = id
      /\ master_lights_config' = PackConfig(id)

LoopDecode ==
  /\ pc = "decode"
  /\ DoDecode
  /\ pc' = "apply"
  /\ UNCHANGED <<build, avgVars, clock, since_flip, filterVars, ledVars, blinkVars,
                 input_pwm_hi_us, turn_log>>

\* apply_master_lights_config(master_lights_config);
LoopApply ==
  /\ pc = "apply"
  /\ \E skew \in Skews(master_lights_config) : DoApply(master_lights_config, skew)
  /\ pc' = "smooth"
  /\ UNCHANGED <<build, avgVars, filterVars, input_pwm_hi_us, config_id, turn_log>>

Next == Startup \/ LoopSmooth \/ LoopDecode \/ LoopApply

Spec == Init /\ [][Next]_vars

(***************************************************************************)
(* Harness: the filter called repeatedly on arbitrary measurements.        *)
(***************************************************************************)
FilterRaw == {0, INPUT_PWM_US_RANGE_MIN, INPUT_PWM_US_RANGE_MIN + 1,
              INPUT_PWM_US_RANGE_MAX}

InitFilter == InitMem /\ build = "wrap" /\ input_pwm_hi_us = 0 /\ pc = "call"

CallSmooth ==
  /\ pc = "call"
  /\ \E raw \in FilterRaw, d \in 1 .. MaxTick : DoSmooth(raw, d)
  /\ UNCHANGED <<build, avgVars, pc, ledVars, blinkVars, decodeVars, turn_log>>

NextFilter == CallSmooth

SpecFilter == InitFilter /\ [][NextFilter]_vars

(***************************************************************************)
(* Harness: the turn operations called directly on any channel.            *)
(***************************************************************************)
turn_led(s, led, target) ==
  CASE target = "OFF" -> turn_led_off(s, led)
    [] target = "ON" -> turn_led_on(s, led)
    [] target = "HI" -> turn_led_hi(s, led)

InitTurn == InitMem /\ build = "wrap" /\ input_pwm_hi_us = 0 /\ pc = "call"

CallTurn ==
  /\ pc = "call"
  /\ \E led \in Leds, target \in LedState :
       LET s == turn_led(Store, led, target)
           same == turn_log.led = led /\ turn_log.target = target
       IN  /\ SetStore(s)
           /\ turn_log' = [led |-> led, target |-> target, pre |-> state[led],
                           wrote |-> s.writes[led], same |-> same,
                           prev_wrote |-> IF same THEN turn_log.wrote ELSE 0]
  /\ UNCHANGED <<build, avgVars, pc, filterVars, decodeVars, input_pwm_hi_us>>

NextTurn == CallTurn

SpecTurn == InitTurn /\ [][NextTurn]_vars

(***************************************************************************)
(* Harness: the rule engine called again and again with any configuration  *)
(* of the six defined bits while the clock runs.                           *)
(***************************************************************************)
InitRules == InitMem /\ build = "wrap" /\ input_pwm_hi_us = 0 /\ pc = "call"

\* time passes between two calls
Tick ==
  /\ pc = "call"
  /\ clock' = (clock + 1) % ClockMod
  /\ since_flip' = Saturate(since_flip + 1)
  /\ UNCHANGED <<build, avgVars, pc, filterVars, ledVars, blinkVars, decodeVars,
                 input_pwm_hi_us, turn_log>>

CallApply ==
  /\ pc = "call"
  /\ \E config \in 0 .. 63 : \E skew \in Skews(config) : DoApply(config, skew)
  /\ pc' = "ret"
  /\ UNCHANGED <<build, avgVars, filterVars, input_pwm_hi_us, config_id, turn_log>>

\* the call returns: its argument and what was observed of it are dropped
Return ==
  /\ pc = "ret"
  /\ pc' = "call"
  /\ master_lights_config' = 0
  /\ writes' = NoWrites
  /\ blink_log' = <<>>
  /\ flip_log' = <<>>
  /\ UNCHANGED <<build, avgVars, clock, since_flip, filterVars, state, level, next_us, blink_on,
                 input_pwm_hi_us, config_id, turn_log>>

NextRules == Tick \/ CallApply \/ Return

SpecRules == InitRules /\ [][NextRules]_vars

(***************************************************************************)
(* Harness: the rule engine called twice in a row, each time with any      *)
(* value of its uint8_t argument.                                          *)
(***************************************************************************)
InitPair == InitMem /\ build = "wrap" /\ input_pwm_hi_us = 0 /\ pc = "call"

CallFirst ==
  /\ pc = "call"
  /\ \E config \in 0 .. 255 : \E skew \in Skews(config) : DoApply(config, skew)
  /\ pc' = "second"
  /\ UNCHANGED <<build, avgVars, filterVars, input_pwm_hi_us, config_id, turn_log>>

CallSecond ==
  /\ pc = "second"
  /\ \E config \in 0 .. 255 : \E skew \in Skews(config) : DoApply(config, skew)
  /\ pc' = "ret"
  /\ UNCHANGED <<build, avgVars, filterVars, input_pwm_hi_us, config_id, turn_log>>

NextPair == Tick \/ CallFirst \/ CallSecond

SpecPair == InitPair /\ [][NextPair]_vars

(***************************************************************************)
(* Harness: one pass of decode and apply on any measurable pulse width.    *)
(***************************************************************************)
InitDecode ==
  /\ InitMem
  /\ build \in Builds
  /\ input_pwm_hi_us \in 0 .. INPUT_PWM_COUNTER_MAX
  /\ pc = "call"

CallDecode ==
  /\ pc = "call"
  /\ DoDecode
  /\ pc' = "decoded"
  /\ UNCHANGED <<build, avgVars, clock, since_flip, filterVars, ledVars, blinkVars,
                 input_pwm_hi_us, turn_log>>

ApplyDecoded ==
  /\ pc = "decoded"
  /\ \E skew \in Skews(master_lights_config) : DoApply(master_lights_config, skew)
  /\ pc' = "done"
  /\ UNCHANGED <<build, avgVars, filterVars, input_pwm_hi_us, config_id, turn_log>>

NextDecode == CallDecode \/ ApplyDecoded

SpecDecode == InitDecode /\ [][NextDecode]_vars

(***************************************************************************)
(* Harness: the moving average called repeatedly on arbitrary              *)
(* measurements.                                                           *)
(***************************************************************************)
AverageRaw == {0, INPUT_PWM_US_RANGE_MIN + 1, INPUT_PWM_US_RANGE_MAX - 1}

InitAverage == InitMem /\ build = "wrap" /\ input_pwm_hi_us = 0 /\ pc = "call"

CallAverage ==
  /\ pc = "call"
  /\ \E hi_us \in AverageRaw, d \in 1 .. MaxTick : DoAverage(hi_us, d)
  /\ UNCHANGED <<pc, build, filterVars, ledVars, blinkVars, decodeVars,
                 input_pwm_hi_us, turn_log>>

NextAverage == CallAverage

SpecAverage == InitAverage /\ [][NextAverage]_vars

(***************************************************************************)
(* Properties.                                                             *)
(***************************************************************************)
Bit(n, k) == (n \div (2 ^ k)) % 2

RECURSIVE BitOr(_, _)
\* bitwise or of two naturals
BitOr(a, b) ==
  IF a = 0 THEN b
  ELSE IF b = 0 THEN a
  ELSE (IF a % 2 = 1 \/ b % 2 = 1 THEN 1 ELSE 0) + 2 * BitOr(a \div 2, b \div 2)

\* C1 (Spec): hazard synchrony.  At the end of every cycle of main in which
\* apply_master_lights_config ran both blink_led calls (blink field = 3), the
\* left and the right blinkers are in the same state.
C1_HazardSynchrony ==
  (pc = "smooth" /\ Len(blink_log) = 2)
    => state["LEFT_BLINKERS"] = state["RIGHT_BLINKERS"]

HistFull == Len(raw_hist) = INPUT_PWM_SMOOTH_SAMPLES

\* C2 (SpecFilter): debounce rejection.  The filter returns a value different
\* from the one of the previous call only if the last
\* INPUT_PWM_SMOOTH_SAMPLES raw samples are all equal, and it then returns
\* that sample; INPUT_PWM_SMOOTH_SAMPLES - 1 identical samples followed by
\* a differing one leave the returned value unchanged.
C2_DebounceRejection ==
  /\ input_pwm_hi_us = smooth_hi_us
  /\ smooth_hi_us # prev_smooth
       => /\ HistFull
          /\ \A i \in 1 .. INPUT_PWM_SMOOTH_SAMPLES : raw_hist[i] = smooth_hi_us
  /\ ( /\ HistFull
       /\ \A i \in 1 .. INPUT_PWM_SMOOTH_SAMPLES - 1 : raw_hist[i] = raw_hist[1]
       /\ raw_hist[INPUT_PWM_SMOOTH_SAMPLES] # raw_hist[1] )
       => smooth_hi_us = prev_smooth

\* the filter has just replaced one accepted pulse width by another
C2_Witness ==
  /\ smooth_hi_us # prev_smooth
  /\ prev_smooth # 0
  /\ smooth_hi_us # 0

\* C3 (SpecFilter): debounce acceptance latency.  From any reachable filter
\* state, once the last INPUT_PWM_SMOOTH_SAMPLES raw samples all equal v,
\* the call that took the last of them returned v.
C3_AcceptanceLatency ==
  ( /\ HistFull
    /\ \A i \in 1 .. INPUT_PWM_SMOOTH_SAMPLES : raw_hist[i] = raw_hist[1] )
    => input_pwm_hi_us = raw_hist[1]

\* four equal samples arrived while the write index was in the middle of
\* the ring buffer and another value was stable
C3_Witness ==
  /\ HistFull
  /\ \A i \in 1 .. INPUT_PWM_SMOOTH_SAMPLES : raw_hist[i] = INPUT_PWM_US_RANGE_MAX
  /\ prev_smooth = INPUT_PWM_US_RANGE_MIN
  /\ input_pwm_hi_us = INPUT_PWM_US_RANGE_MAX
  /\ curr_sample = 2

\* C4 (SpecTurn): idempotent turn operations.  A call turn_led_X(led) writes
\* to the peripheral exactly when the recorded state differed from X, writes
\* to no other channel and leaves the recorded state equal to X; the same
\* call made twice in a row writes at most once, never the second time.
C4_IdempotentTurn ==
  turn_log.led # "none" =>
    /\ turn_log.wrote = (IF turn_log.pre # turn_log.target THEN 1 ELSE 0)
    /\ writes[turn_log.led] = turn_log.wrote
    /\ \A l \in Leds \ {turn_log.led} : writes[l] = 0
    /\ state[turn_log.led] = turn_log.target
    /\ turn_log.same => (turn_log.wrote = 0 /\ turn_log.prev_wrote + turn_log.wrote <= 1)

\* turn_led_hi called twice in a row on a channel that was not High
C4_Witness ==
  /\ turn_log.same
  /\ turn_log.target = "HI"
  /\ turn_log.prev_wrote = 1
  /\ turn_log.wrote = 0

C6_BlinkerSelection ==
  pc = "ret" =>
    LET b == (master_lights_config \div 4) % 4
        L == "LEFT_BLINKERS"
        R == "RIGHT_BLINKERS"
    IN  /\ b = 0 => state[L] = "OFF" /\ state[R] = "OFF" /\ blink_log = <<>>
        /\ b = 1 => /\ state[R] = "OFF"
                    /\ blink_log = <<[led |-> L, on |-> blink_on]>>
                    /\ state[L] = (IF blink_on THEN "ON" ELSE "OFF")
        /\ b = 2 => /\ state[L] = "OFF"
                    /\ blink_log = <<[led |-> R, on |-> blink_on]>>
                    /\ state[R] = (IF blink_on THEN "ON" ELSE "OFF")
        /\ b = 3 => /\ Len(blink_log) = 2
                    /\ blink_log[1].led = L /\ blink_log[2].led = R
                    /\ blink_log[2].on = blink_on
                    /\ state[L] = (IF blink_log[1].on THEN "ON" ELSE "OFF")
                    /\ state[R] = (IF blink_log[2].on THEN "ON" ELSE "OFF")

\* the mode switches from left to right while the left blinker is On: the
\* call writes the left one Off and the right one On
C6_Witness ==
  /\ pc = "ret"
  /\ (master_lights_config \div 4) % 4 = 2
  /\ writes["LEFT_BLINKERS"] = 1 /\ state["LEFT_BLINKERS"] = "OFF"
  /\ writes["RIGHT_BLINKERS"] = 1 /\ state["RIGHT_BLINKERS"] = "ON"

\* C7 (SpecDecode): bit-packing round trip.  For every id in 0 .. 47 the
\* packed config satisfies (config & 3) + 3 * (config >> 2) = id, and the
\* sum the code forms equals the bitwise or of its two terms.
C7_PackRoundTrip ==
  (pc # "call" /\ config_id < MASTER_LIGHT_CONFIGURATION_COUNT) =>
    /\ (master_lights_config % 4) + 3 * (master_lights_config \div 4) = config_id
    /\ master_lights_config = BitOr(config_id % 3, (config_id \div 3) * 4)

\* the largest id is packed
C7_Witness ==
  /\ pc = "decoded"
  /\ config_id = MASTER_LIGHT_CONFIGURATION_COUNT - 1
  /\ master_lights_config = 62

InRange(w) == INPUT_PWM_US_RANGE_MIN <= w /\ w <= INPUT_PWM_US_RANGE_MAX

\* C8 (SpecDecode): decoder monotonicity.  For integer pulse widths w1 <= w2
\* in [RANGE_MIN, RANGE_MAX] the id of w1 is at most the id of w2; the id is
\* the truncation of (w - 1019 + b/2) / b with b = 952/47, and lies in
\* 0 .. 47.
C8_DecoderMonotone ==
  (pc # "call" /\ InRange(input_pwm_hi_us)) =>
    /\ config_id \in 0 .. MASTER_LIGHT_CONFIGURATION_COUNT - 1
    /\ config_id =
         ( (MASTER_LIGHT_CONFIGURATION_COUNT - 1) * 2
             * (input_pwm_hi_us - INPUT_PWM_US_RANGE_MIN)
           + INPUT_PWM_US_RANGE_SIZE ) \div (2 * INPUT_PWM_US_RANGE_SIZE)
    /\ \A w2 \in input_pwm_hi_us .. INPUT_PWM_US_RANGE_MAX :
         \A id2 \in input_pwm_hi_us_to_config_id(w2) : config_id <= id2

\* a width on a bucket boundary is decoded
C8_Witness ==
  /\ pc = "decoded"
  /\ input_pwm_hi_us = INPUT_PWM_US_RANGE_MIN + INPUT_PWM_US_RANGE_SIZE \div 2
  /\ config_id = MASTER_LIGHT_CONFIGURATION_COUNT \div 2

C10_NoBrakeWithReverse ==
  /\ pc # "call" => /\ master_lights_config % 4 \in {0, 1, 2}
                    /\ ~(Bit(master_lights_config, 0) = 1
                          /\ Bit(master_lights_config, 1) = 1)
  /\ pc = "done" => ~(state["STOP"] = "HI" /\ state["REVERSE"] = "ON")

\* an id beyond 47 has been packed and applied with the reverse light on
C10_Witness ==
  /\ pc = "done"
  /\ config_id > MASTER_LIGHT_CONFIGURATION_COUNT
  /\ master_lights_config % 4 = 2
  /\ state["REVERSE"] = "ON"
  /\ state["STOP"] = "ON"

\* the largest packed value of an id below MASTER_LIGHT_CONFIGURATION_COUNT
MaxPacked == 4 * ((MASTER_LIGHT_CONFIGURATION_COUNT - 1) \div 3) + 2

\* C11 (SpecDecode), as stated: for every pulse width in [RANGE_MIN,
\* RANGE_MAX] the value returned by input_pwm_hi_us_to_master_lights_config
\* lies in [0, MASTER_LIGHT_CONFIGURATION_COUNT).
C11_ConfigBelowCount ==
  (pc # "call" /\ InRange(input_pwm_hi_us)) =>
    master_lights_config \in 0 .. MASTER_LIGHT_CONFIGURATION_COUNT - 1

\* C11 (SpecDecode), amended: for every pulse width in [RANGE_MIN, RANGE_MAX]
\* the id lies in [0, MASTER_LIGHT_CONFIGURATION_COUNT) and the returned
\* packed value lies in [0, 62], its two low bits never both set.
C11_ConfigRange ==
  (pc # "call" /\ InRange(input_pwm_hi_us)) =>
    /\ config_id \in 0 .. MASTER_LIGHT_CONFIGURATION_COUNT - 1
    /\ master_lights_config \in 0 .. MaxPacked
    /\ master_lights_config % 4 # 3

\* the upper end of the range is packed to a value beyond the count
C11_Witness ==
  /\ pc = "decoded"
  /\ input_pwm_hi_us = INPUT_PWM_US_RANGE_MAX
  /\ master_lights_config = MaxPacked
  /\ master_lights_config >= MASTER_LIGHT_CONFIGURATION_COUNT

\* C12 (Spec): FrontBlue is switched On by one write at startup and is On
\* in every later state; no step of a control cycle writes to FrontBlue or
\* changes its state.
C12_FrontBlueOn ==
  /\ [](pc # "init" => /\ state["FRONT_BLUE"] = "ON"
                       /\ level["FRONT_BLUE"] = OUTPUT_PWM_ON_LEVEL)
  /\ [][/\ pc = "init" => /\ writes'["FRONT_BLUE"] = 1
                          /\ state'["FRONT_BLUE"] = "ON"
        /\ pc = "apply" => writes'["FRONT_BLUE"] = 0
        /\ pc # "init" => /\ state'["FRONT_BLUE"] = state["FRONT_BLUE"]
                          /\ level'["FRONT_BLUE"] = level["FRONT_BLUE"]]_vars

\* a cycle has applied the all-lights configuration and FrontBlue is as
\* startup left it
C12_Witness ==
  /\ pc = "smooth"
  /\ master_lights_config = MaxPacked
  /\ state["FRONT_WHITE"] = "HI"
  /\ writes["FRONT_BLUE"] = 0
  /\ state["FRONT_BLUE"] = "ON"

\* C13 (Spec): wraparound-safe blink timing.  Every flip of the blink phase
\* comes at least BlinkTicks of elapsed time after the flip before it, also
\* when the deadline of the earlier flip wrapped past the counter maximum.
C13_FlipSpacing ==
  \A i \in 1 .. Len(flip_log) : flip_log[i] >= BlinkTicks

\* the timer <<nextToggle, phaseOn>> after a step that flips from the
\* deadline on
StepFromDeadline(tm, now) ==
  IF now >= tm[1] THEN <<(now + BlinkTicks) % ClockMod, ~tm[2]>> ELSE tm

\* the timer <<nextToggle, phaseOn>> after a step that flips only past the
\* deadline
StepPastDeadline(tm, now) ==
  IF now > tm[1] THEN <<(now + BlinkTicks) % ClockMod, ~tm[2]>> ELSE tm

\* C14 (SpecRules), as stated: the timer starts at zero/false, and every
\* blink_led call that reads now >= nextToggle sets nextToggle to
\* now + BlinkTicks and flips phaseOn, any other call leaves both unchanged.
\* A call of the rule engine makes Len(blink_log') blink_led calls, the first
\* reading the clock before the call and the second the clock after it.
C14_BlinkStepFromDeadline ==
  /\ next_us = 0 /\ blink_on = FALSE
  /\ [][(pc = "call" /\ pc' = "ret") =>
          LET t0 == <<next_us, blink_on>>
              t1 == StepFromDeadline(t0, clock)
              t2 == StepFromDeadline(t1, clock')
          IN  <<next_us', blink_on'>> =
                CASE Len(blink_log') = 0 -> t0
                  [] Len(blink_log') = 1 -> t1
                  [] OTHER -> t2]_vars

\* C14 (SpecRules), amended: the timer starts at zero/false, and every
\* blink_led call that reads now > nextToggle sets nextToggle to
\* now + BlinkTicks (modulo the counter) and flips phaseOn; any other call,
\* one that reads now = nextToggle included, leaves both unchanged.
C14_BlinkStepPastDeadline ==
  /\ next_us = 0 /\ blink_on = FALSE
  /\ [][(pc = "call" /\ pc' = "ret") =>
          LET t0 == <<next_us, blink_on>>
              t1 == StepPastDeadline(t0, clock)
              t2 == StepPastDeadline(t1, clock')
          IN  <<next_us', blink_on'>> =
                CASE Len(blink_log') = 0 -> t0
                  [] Len(blink_log') = 1 -> t1
                  [] OTHER -> t2]_vars

\* one blink_led call has read the clock exactly at a deadline set by an
\* earlier flip, and has not flipped the phase
C14_Witness ==
  /\ pc = "ret"
  /\ Len(blink_log) = 1
  /\ flip_log = <<>>
  /\ next_us = clock
  /\ since_flip = BlinkTicks
  /\ blink_on

\* C15 (Spec): blink liveness.  The phase flips again and again while
\* blink_led is called and the clock advances, which requires that no
\* reachable deadline makes the phase unable to flip again: in every
\* reachable state some reading of the clock makes the timer step flip.
C15_PhaseCanFlipAgain ==
  \E curr_us \in 0 .. ClockMod - 1 :
    blink_timer(Store, curr_us).blink_on # blink_on

\* the blinkers
Blinkers == {"LEFT_BLINKERS", "RIGHT_BLINKERS"}

\* C16 (SpecRules): blink drive.  After every blink_led(ch) the channel is On
\* exactly if the phase that call saw is on; the call writes the Off level
\* only if the channel was On before; and no blinker is High in any
\* reachable state.
C16_BlinkDrive ==
  /\ [](\A ch \in Blinkers : state[ch] \in {"OFF", "ON"})
  /\ [][(pc = "call" /\ pc' = "ret") =>
          \A i \in 1 .. Len(blink_log') :
            LET ch == blink_log'[i].led
            IN  /\ ch \in Blinkers
                /\ state'[ch] = "ON" <=> blink_log'[i].on
                /\ (writes'[ch] > 0 /\ level'[ch] = OUTPUT_PWM_OFF_LEVEL)
                     => state[ch] = "ON"
                /\ state[ch] = "OFF" /\ ~blink_log'[i].on
                     => writes'[ch] = 0]_vars

\* a blink_led call in the off phase has switched the left blinker from On
\* to Off with one write
C16_Witness ==
  /\ pc = "ret"
  /\ blink_log = <<[led |-> "LEFT_BLINKERS", on |-> FALSE]>>
  /\ writes["LEFT_BLINKERS"] = 1
  /\ state["LEFT_BLINKERS"] = "OFF"
  /\ level["LEFT_BLINKERS"] = OUTPUT_PWM_OFF_LEVEL

\* the quotient of the decoder still fits in the eight bits of the id
FitsUint8(w) == QuotientTrunc(w) <= 255

\* C17 (SpecDecode), as stated: no clamping.  Every pulse width above
\* RANGE_MAX whose quotient fits in eight bits is decoded to an id above 47.
C17_AboveRangeAboveIds ==
  (pc # "call" /\ input_pwm_hi_us > INPUT_PWM_US_RANGE_MAX
     /\ FitsUint8(input_pwm_hi_us)) =>
    config_id > MASTER_LIGHT_CONFIGURATION_COUNT - 1

\* C17 (SpecDecode), amended: no clamping.  The widths 1972 .. 1981, within
\* half a bucket above RANGE_MAX, are still decoded to id 47; every width
\* from 1982 on whose quotient fits in eight bits is decoded to that
\* quotient, an id above 47, and the value packed from it is the one the
\* rule engine is called with.
C17_NoClamping ==
  /\ (pc # "call" /\ input_pwm_hi_us \in INPUT_PWM_US_RANGE_MAX + 1 .. 1981) =>
       config_id = MASTER_LIGHT_CONFIGURATION_COUNT - 1
  /\ (pc # "call" /\ input_pwm_hi_us >= 1982 /\ FitsUint8(input_pwm_hi_us)) =>
       /\ config_id > MASTER_LIGHT_CONFIGURATION_COUNT - 1
       /\ config_id = QuotientTrunc(input_pwm_hi_us)
       /\ master_lights_config = ((config_id % 3) + 4 * (config_id \div 3)) % 256
       /\ pc = "done" =>
            /\ state["REVERSE"] =
                 (IF Bit(master_lights_config, 1) = 1 THEN "ON" ELSE "OFF")
            /\ state["FRONT_WHITE"] =
                 (IF Bit(master_lights_config, 4) = 1 THEN "HI"
                  ELSE IF Bit(master_lights_config, 5) = 1 THEN "ON" ELSE "OFF")

\* the first width decoded beyond the ids has been applied as it was packed
C17_Witness ==
  /\ pc = "done"
  /\ input_pwm_hi_us = 1982
  /\ config_id = MASTER_LIGHT_CONFIGURATION_COUNT
  /\ master_lights_config = 64
  /\ state["FRONT_WHITE"] = "OFF"
  /\ state["STOP"] = "OFF"

RECURSIVE SumSeq(_)
\* the sum of the entries of a sequence
SumSeq(q) == IF q = <<>> THEN 0 ELSE Head(q) + SumSeq(Tail(q))

\* the newest n entries of a sequence, all of them if there are fewer
Newest(q, n) == IF Len(q) <= n THEN q ELSE SubSeq(q, Len(q) - n + 1, Len(q))

\* C18 (SpecAverage): moving average, in exact arithmetic.  After every call
\* of average_input_pwm_hi_us the running sum is the sum of the
\* INPUT_PWM_AVG_SAMPLES most recent pre-divided samples, samples before the
\* first call counting as 0, and the sample the call subtracted is the one
\* taken INPUT_PWM_AVG_SAMPLES calls earlier.
C18_MovingAverage ==
  /\ running_avg_hi_us = SumSeq(Newest(avg_hist, INPUT_PWM_AVG_SAMPLES))
  /\ avg_evicted = (IF Len(avg_hist) = INPUT_PWM_AVG_SAMPLES + 1
                      THEN avg_hist[1] ELSE 0)

\* the ring is full and the last call has evicted a non-zero sample that
\* differs from the one taken after it
C18_Witness ==
  /\ Len(avg_hist) = INPUT_PWM_AVG_SAMPLES + 1
  /\ avg_hist[1] # 0
  /\ avg_hist[1] # avg_hist[2]
  /\ avg_evicted = avg_hist[1]
  /\ running_avg_hi_us > 0

\* the level that stands for a recorded state
LevelOf(st) ==
  CASE st = "OFF" -> OUTPUT_PWM_OFF_LEVEL
    [] st = "ON" -> OUTPUT_PWM_ON_LEVEL
    [] st = "HI" -> OUTPUT_PWM_HI_LEVEL

\* C19 (Spec): state mirror.  In every reachable state the recorded state of
\* each channel stands for the level last written to its peripheral, a
\* channel never written being at level 0.
C19_StateMirror ==
  \A l \in Leds : level[l] = LevelOf(state[l])

\* a cycle has left channels at all three levels, the left blinker having
\* just been written Off
C19_Witness ==
  /\ pc = "smooth"
  /\ level["FRONT_WHITE"] = OUTPUT_PWM_HI_LEVEL
  /\ level["STOP"] = OUTPUT_PWM_ON_LEVEL
  /\ level["LEFT_BLINKERS"] = OUTPUT_PWM_OFF_LEVEL
  /\ writes["LEFT_BLINKERS"] = 1

\* the filter has returned in this cycle the value it returned in the cycle
\* before
SameStable == Len(raw_hist) >= 2 /\ prev_smooth = smooth_hi_us

\* C20 (Spec): noise never reaches the lights.  In a cycle in which the
\* filter returns the stable value of the cycle before, the decoded
\* configuration is that of the cycle before, and the application writes to
\* none of FrontWhite, Stop and Reverse and leaves their states as they
\* were; in every cycle each channel is written at most once.
C20_StableCycleQuiet ==
  [][/\ (pc = "decode" /\ SameStable) =>
          master_lights_config' = master_lights_config
     /\ (pc = "apply" /\ SameStable) =>
          \A l \in {"FRONT_WHITE", "STOP", "REVERSE"} :
            /\ writes'[l] = 0
            /\ state'[l] = state[l]
            /\ level'[l] = level[l]
     /\ pc = "apply" => \A l \in Leds : writes'[l] <= 1]_vars

\* a cycle whose sample differed from the stable value has ended without a
\* write to FrontWhite, Stop or Reverse, the hazard blinkers still blinking
C20_Witness ==
  /\ pc = "smooth"
  /\ SameStable
  /\ smooth_hi_us = INPUT_PWM_US_RANGE_MAX
  /\ raw_hist[Len(raw_hist)] = INPUT_PWM_US_RANGE_MIN
  /\ master_lights_config = MaxPacked
  /\ writes["FRONT_WHITE"] = 0 /\ writes["STOP"] = 0 /\ writes["REVERSE"] = 0
  /\ writes["LEFT_BLINKERS"] = 1

====
